---- MODULE Spec2Model ----
(***************************************************************************)
(* Model of process_spending.py: the per-fiscal-year CSV cleaner           *)
(* (process_fy, compute_fiscal_year) and the batch driver (main).          *)
(*                                                                         *)
(* A CSV cell is a sequence of one-character strings.  A DataFrame is a    *)
(* record [columns |-> set of names, rows |-> sequence of rows], a row a   *)
(* function from column name to value.  Values are tagged records:         *)
(*   [str |-> chars]            a Python str                               *)
(*   [null |-> "NaN"|"NaT"|"NA"] a pandas missing value                    *)
(*   [year, month, day]         a Timestamp                                *)
(*   [num |-> n]                a number                                   *)
(***************************************************************************)
EXTENDS Integers, Sequences, FiniteSets, TLC

\* ------------------------------------------------------------------ bounds
\* partition directories that differ from the baseline of the run
MaxOdd == 1
\* calendar years sampled on each side of the expected fiscal years
YearMargin == 1
\* length of the zip+4 cells sampled
MaxZipLen == 6

\* --------------------------------------------------------- configuration
COLUMN_MAP ==
  [ award_amount |-> "federal_action_obligation",
    action_date |-> "action_date",
    period_of_performance_start_date |-> "period_of_performance_start_date",
    naics_code |-> "naics_code",
    product_or_service_code |-> "product_or_service_code",
    recipient_uei |-> "recipient_uei",
    awarding_sub_agency_name |-> "awarding_sub_agency_name",
    type_of_contract_pricing |-> "type_of_contract_pricing",
    extent_competed |-> "extent_competed",
    primary_place_of_performance_zip_5 |-> "primary_place_of_performance_zip_4",
    contract_description |-> "transaction_description",
    parent_award_agency_id |-> "parent_award_agency_id" ]

USE_COLS == {COLUMN_MAP[k] : k \in DOMAIN COLUMN_MAP}

FY_FOLDERS ==
  << "FY2017", "FY2018", "FY2019", "FY2020",
     "FY2021", "FY2022", "FY2023", "FY2024", "FY2025" >>

\* range(2017, 2026): first year, and the exclusive end
FirstFY == 2017

EndFY == 2026

expected == FirstFY .. (EndFY - 1)

\* ----------------------------------------------------------------- values
Str(s) == [str |-> s]

NaN == [null |-> "NaN"]

NaT == [null |-> "NaT"]

NA == [null |-> "NA"]

Num(n) == [num |-> n]

Timestamp(y, m, d) == [year |-> y, month |-> m, day |-> d]

IsNull(v) == "null" \in DOMAIN v

Digits == << "0", "1", "2", "3", "4", "5", "6", "7", "8", "9" >>

IsDigit(c) == \E i \in 1..Len(Digits) : Digits[i] = c

DigitVal(c) == (CHOOSE i \in 1..Len(Digits) : Digits[i] = c) - 1

RECURSIVE DecVal(_)
DecVal(s) ==
  IF s = << >> THEN 0
  ELSE 10 * DecVal(SubSeq(s, 1, Len(s) - 1)) + DigitVal(s[Len(s)])

AllDigits(s) == \A i \in 1..Len(s) : IsDigit(s[i])

\* the cells pandas.read_csv reads as missing (a subset of its defaults)
NA_VALUES ==
  { << >>, << "n", "a", "n" >>, << "N", "a", "N" >>, << "N", "A" >> }

\* ------------------------------------------------------------ pd.read_csv
ReadCell(cell) == IF cell \in NA_VALUES THEN NaN ELSE Str(cell)

\* usecols: every name must be in the header
UsecolsOk(header) == USE_COLS \subseteq header

\* the columns kept by usecols=USE_COLS
KeptColsAll(header) == header

KeptCols(header) == header \cap USE_COLS

read_csv(file) ==
  [ columns |-> KeptCols(file.header),
    rows |-> [ i \in 1..Len(file.rows) |->
                 [ c \in KeptCols(file.header) |-> ReadCell(file.rows[i][c]) ] ] ]

\* -------------------------------------------------------------- df.rename
reverse_map ==
  [ v \in USE_COLS |-> CHOOSE k \in DOMAIN COLUMN_MAP : COLUMN_MAP[k] = v ]

NewName(c) == IF c \in DOMAIN reverse_map THEN reverse_map[c] ELSE c

RenameRow(r) ==
  [ c \in {NewName(k) : k \in DOMAIN r} |->
      r[CHOOSE k \in DOMAIN r : NewName(k) = c] ]

rename(df) ==
  [ columns |-> {NewName(c) : c \in df.columns},
    rows |-> [ i \in 1..Len(df.rows) |-> RenameRow(df.rows[i]) ] ]

\* --------------------------------------------------------- pd.to_datetime
IsLeap(y) == (y % 4 = 0 /\ y % 100 # 0) \/ y % 400 = 0

DaysIn(y, m) ==
  IF m = 2 THEN (IF IsLeap(y) THEN 29 ELSE 28)
  ELSE IF m \in {4, 6, 9, 11} THEN 30 ELSE 31

\* a cell written YYYY-MM-DD, the form of the extracts, naming a real calendar
\* date; the sampled cells are of that form or are no date at all, and those
\* are coerced to NaT
IsIsoDate(s) ==
  /\ Len(s) = 10
  /\ s[5] = "-"
  /\ s[8] = "-"
  /\ AllDigits(SubSeq(s, 1, 4))
  /\ AllDigits(SubSeq(s, 6, 7))
  /\ AllDigits(SubSeq(s, 9, 10))
  /\ DecVal(SubSeq(s, 6, 7)) \in 1..12
  /\ DecVal(SubSeq(s, 9, 10)) \in
       1..DaysIn(DecVal(SubSeq(s, 1, 4)), DecVal(SubSeq(s, 6, 7)))

to_datetime(v) ==
  IF IsNull(v) THEN NaT
  ELSE IF IsIsoDate(v.str)
       THEN Timestamp(DecVal(SubSeq(v.str, 1, 4)),
                      DecVal(SubSeq(v.str, 6, 7)),
                      DecVal(SubSeq(v.str, 9, 10)))
       ELSE NaT

\* ---------------------------------------------------------- pd.to_numeric
\* the sampled amounts are unsigned integers or no number at all
to_numeric(v) ==
  IF IsNull(v) THEN NaN
  ELSE IF v.str # << >> /\ AllDigits(v.str) THEN Num(DecVal(v.str))
       ELSE NaN

\* ------------------------------------------ .astype(str).str[:5].replace
astype_str(v) == IF IsNull(v) THEN Str(<< "n", "a", "n" >>) ELSE v

ZipWidth == 5

str_slice_short(v) ==
  Str(SubSeq(v.str, 1, IF Len(v.str) < ZipWidth - 1 THEN Len(v.str) ELSE ZipWidth - 1))

str_slice(v) ==
  Str(SubSeq(v.str, 1, IF Len(v.str) < ZipWidth THEN Len(v.str) ELSE ZipWidth))

replace_nan(v) == IF v = Str(<< "n", "a", "n" >>) THEN NA ELSE v

zip_5(v) == replace_nan(str_slice(astype_str(v)))

\* ---------------------------------------------------- compute_fiscal_year
dt_year(v) == IF IsNull(v) THEN NaN ELSE Num(v.year)

dt_month(v) == IF IsNull(v) THEN NaN ELSE Num(v.month)

\* (series >= 10).astype(int): a comparison with NaN is False
FirstFYMonth == 10

ge_as_int(v) == IF IsNull(v) THEN 0 ELSE IF v.num >= FirstFYMonth THEN 1 ELSE 0

\* NaN + k is NaN
add_int(v, k) == IF IsNull(v) THEN NaN ELSE Num(v.num + k)

compute_fiscal_year_late(date) ==
  add_int(dt_year(date),
          IF IsNull(date) THEN 0 ELSE IF date.month > FirstFYMonth THEN 1 ELSE 0)

compute_fiscal_year(date) == add_int(dt_year(date), ge_as_int(dt_month(date)))

\* ------------------------------------------------------------- process_fy
\* the column assignments of lines 65-84, row by row: each assignment
\* replaces (or, for fiscal_year, adds) one column and keeps the others
CleanRow(r) ==
  LET action_date == to_datetime(r["action_date"])
  IN [ c \in DOMAIN r \cup {"fiscal_year"} |->
         IF c = "action_date" THEN action_date
         ELSE IF c = "period_of_performance_start_date"
           THEN to_datetime(r["period_of_performance_start_date"])
         ELSE IF c = "award_amount" THEN to_numeric(r["award_amount"])
         ELSE IF c = "primary_place_of_performance_zip_5"
           THEN zip_5(r["primary_place_of_performance_zip_5"])
         ELSE IF c = "fiscal_year" THEN compute_fiscal_year(action_date)
         ELSE r[c] ]

CleanFrame(df) ==
  LET renamed == rename(df)
  IN [ columns |->
         renamed.columns \cup
           { "action_date", "period_of_performance_start_date", "award_amount",
             "primary_place_of_performance_zip_5", "fiscal_year" },
       rows |-> [ i \in 1..Len(renamed.rows) |-> CleanRow(renamed.rows[i]) ] ]

\* csvs is the glob result: the list of CSV files of the directory
process_fy_empty_frame(csvs) ==
  IF csvs = << >> THEN [kind |-> "df", df |-> [columns |-> {}, rows |-> << >>]]
  ELSE IF ~UsecolsOk(csvs[1].header) THEN [kind |-> "ValueError"]
  ELSE [kind |-> "df", df |-> CleanFrame(read_csv(csvs[1]))]

process_fy_skip_bad(csvs) ==
  IF csvs = << >> THEN [kind |-> "None"]
  ELSE IF ~UsecolsOk(csvs[1].header) THEN [kind |-> "None"]
  ELSE [kind |-> "df", df |-> CleanFrame(read_csv(csvs[1]))]

process_fy(csvs) ==
  IF csvs = << >> THEN [kind |-> "None"]
  ELSE IF ~UsecolsOk(csvs[1].header) THEN [kind |-> "ValueError"]
  ELSE [kind |-> "df", df |-> CleanFrame(read_csv(csvs[1]))]

\* ------------------------------------------------------------------ state
VARIABLES
  fs,        \* backups/extracted: folder label -> the CSV files glob finds there
  pc,        \* position of main
  out_dir,   \* whether the output directory exists
  fi,        \* index into FY_FOLDERS of the next label of the loop
  frames,    \* the accumulator list of cleaned DataFrames
  combined,  \* the concatenated DataFrame, once merged
  output,    \* content of OUTPUT_FILE
  report,    \* what the verification summary printed
  error,     \* the exception that ended the run
  sample,    \* a one-row CSV handed to process_fy on its own
  cleaned    \* the result of process_fy on sample

vars ==
  << fs, pc, out_dir, fi, frames, combined, output, report, error, sample, cleaned >>

Absent == [kind |-> "absent"]

NFolders == Len(FY_FOLDERS)

\* ------------------------------------------------------------- input data
D2(n) == << Digits[((n \div 10) % 10) + 1], Digits[(n % 10) + 1] >>

D4(n) == D2(n \div 100) \o D2(n % 100)

FmtDate(y, m, d) == D4(y) \o << "-" >> \o D2(m) \o << "-" >> \o D2(d)

Filler == << "x" >>

ExtraCol == "award_id_piid"

MkRow(header, date, start, zip, amount) ==
  [ c \in header |->
      IF c = "action_date" THEN date
      ELSE IF c = "period_of_performance_start_date" THEN start
      ELSE IF c = "primary_place_of_performance_zip_4" THEN zip
      ELSE IF c = "federal_action_obligation" THEN amount
      ELSE Filler ]

LabelYear(i) == FirstFY + i - 1

\* the kinds of rows a sampled CSV of folder i is made of
RowOf(header, i, kind) ==
  IF kind = "in"
    THEN MkRow(header, FmtDate(LabelYear(i), 3, 1), FmtDate(LabelYear(i), 3, 1),
               << "1", "2", "3", "4", "5", "6", "7", "8", "9" >>, << "1", "2" >>)
  ELSE IF kind = "prev"
    THEN MkRow(header, FmtDate(LabelYear(i) - 1, 10, 1), << >>,
               << "1", "2", "3", "4", "5" >>, << "7" >>)
  ELSE IF kind = "oct"
    THEN MkRow(header, FmtDate(LabelYear(i), 10, 1), << "N", "A" >>,
               << "1", "2", "3" >>, << "1", ",", "2" >>)
  ELSE MkRow(header, Filler, Filler, << "n", "a", "n" >>, << >>)

MkFile(header, i, kinds) ==
  [ header |-> header,
    rows |-> [ j \in 1..Len(kinds) |-> RowOf(header, i, kinds[j]) ] ]

\* the rows of the sampled CSVs, as sequences of row kinds
KindSeqs ==
  { << >>, << "in" >>, << "oct" >>, << "null" >>, << "in", "oct" >>,
    << "oct", "in" >>, << "null", "null" >>, << "in", "oct", "null" >> }

DroppedCols == {"action_date", "transaction_description"}

Shapes ==
  {[k |-> "none", rows |-> << >>, col |-> ""]}
    \cup {[k |-> "rows", rows |-> ks, col |-> ""] : ks \in KindSeqs}
    \cup {[k |-> "extra", rows |-> << "in" >>, col |-> ExtraCol]}
    \cup {[k |-> "lacks", rows |-> << "in" >>, col |-> c] : c \in DroppedCols}
    \cup {[k |-> "two", rows |-> << "oct" >>, col |-> "naics_code"]}

\* the directory of folder i that a shape describes
DirOf(i, sh) ==
  IF sh.k = "none" THEN << >>
  ELSE IF sh.k = "rows" THEN << MkFile(USE_COLS, i, sh.rows) >>
  ELSE IF sh.k = "extra" THEN << MkFile(USE_COLS \cup {sh.col}, i, sh.rows) >>
  ELSE IF sh.k = "lacks" THEN << MkFile(USE_COLS \ {sh.col}, i, sh.rows) >>
  ELSE << MkFile(USE_COLS, i, sh.rows), MkFile(USE_COLS \ {sh.col}, i, sh.rows) >>

BaseShape(base) ==
  IF base = "none" THEN [k |-> "none", rows |-> << >>, col |-> ""]
  ELSE [k |-> "rows", rows |-> << "prev" >>, col |-> ""]

\* ------------------------------------------------------------------- main
Idle == [kind |-> "idle"]

\* glob.glob(os.path.join(fy_dir, "*.csv")): fs holds, per folder label, the
\* shape of the directory; the files are built from it when it is listed
FolderIndex(l) == CHOOSE j \in 1..NFolders : FY_FOLDERS[j] = l

glob(l) == DirOf(FolderIndex(l), fs[l])

Init ==
  /\ \E base \in {"none", "typical"} :
       \E odd \in {S \in SUBSET (1..NFolders) : Cardinality(S) <= MaxOdd} :
         \E f \in [odd -> Shapes] :
           fs = [ l \in {FY_FOLDERS[i] : i \in 1..NFolders} |->
                    IF FolderIndex(l) \in odd THEN f[FolderIndex(l)]
                    ELSE BaseShape(base) ]
  /\ pc = "start"
  /\ out_dir = FALSE
  /\ fi = 1
  /\ frames = << >>
  /\ combined = Absent
  /\ output = Absent
  /\ report = Absent
  /\ error = "none"
  /\ sample = Idle
  /\ cleaned = Idle

\* os.makedirs(OUTPUT_DIR, exist_ok=True)
MakeDirs ==
  /\ pc = "start"
  /\ out_dir' = TRUE
  /\ pc' = "loop"
  /\ UNCHANGED << fs, fi, frames, combined, output, report, error, sample, cleaned >>

\* one iteration of `for fy in FY_FOLDERS`
ProcessPartition ==
  /\ pc = "loop"
  /\ fi <= NFolders
  /\ LET df == process_fy(glob(FY_FOLDERS[fi]))
     IN \/ /\ df.kind = "None"
           /\ fi' = fi + 1
           /\ UNCHANGED << frames, pc, error >>
        \/ /\ df.kind = "df"
           /\ frames' = Append(frames, df.df)
           /\ fi' = fi + 1
           /\ UNCHANGED << pc, error >>
        \/ /\ df.kind = "ValueError"
           /\ pc' = "fatal"
           /\ error' = "ValueError: usecols"
           /\ UNCHANGED << frames, fi >>
  /\ UNCHANGED << fs, out_dir, combined, output, report, sample, cleaned >>

\* pd.concat(frames, ignore_index=True)
Reindex(r, cols) == [ c \in cols |-> IF c \in DOMAIN r THEN r[c] ELSE NaN ]

RECURSIVE ConcatRows(_, _)
ConcatRows(fr, cols) ==
  IF fr = << >> THEN << >>
  ELSE [ j \in 1..Len(fr[1].rows) |-> Reindex(fr[1].rows[j], cols) ]
         \o ConcatRows(Tail(fr), cols)

RECURSIVE Dedup(_)
Dedup(rows) ==
  IF rows = << >> THEN << >>
  ELSE LET init == Dedup(SubSeq(rows, 1, Len(rows) - 1))
           last == rows[Len(rows)]
       IN IF \E j \in 1..Len(init) : init[j] = last THEN init
          ELSE Append(init, last)

concat_dedup(fr) ==
  LET cols == UNION {fr[k].columns : k \in 1..Len(fr)}
  IN [ columns |-> cols, rows |-> Dedup(ConcatRows(fr, cols)) ]

\* "No objects to concatenate"
concat_fails_never(fr) == FALSE

concat_fails(fr) == fr = << >>

concat(fr) ==
  LET cols == UNION {fr[k].columns : k \in 1..Len(fr)}
  IN [ columns |-> cols, rows |-> ConcatRows(fr, cols) ]

Merge ==
  /\ pc = "loop"
  /\ fi > NFolders
  /\ \/ /\ concat_fails(frames)
        /\ pc' = "fatal"
        /\ error' = "ValueError: No objects to concatenate"
        /\ UNCHANGED combined
     \/ /\ ~concat_fails(frames)
        /\ combined' = concat(frames)
        /\ pc' = "export"
        /\ UNCHANGED error
  /\ UNCHANGED << fs, out_dir, fi, frames, output, report, sample, cleaned >>

\* combined.to_parquet(OUTPUT_FILE, index=False)
Export ==
  /\ pc = "export"
  /\ output' = combined
  /\ pc' = "summary"
  /\ UNCHANGED << fs, out_dir, fi, frames, combined, report, error, sample, cleaned >>

groupby_size_calendar(df) ==
  LET keys == {df.rows[j]["action_date"].year :
                 j \in {n \in 1..Len(df.rows) : ~IsNull(df.rows[n]["action_date"])}}
  IN [ y \in keys |->
         Cardinality({j \in 1..Len(df.rows) :
                        /\ ~IsNull(df.rows[j]["action_date"])
                        /\ df.rows[j]["action_date"].year = y}) ]

\* combined.groupby("fiscal_year").size(): null keys form no group
groupby_size(df) ==
  LET keys == {df.rows[j]["fiscal_year"].num :
                 j \in {n \in 1..Len(df.rows) : ~IsNull(df.rows[n]["fiscal_year"])}}
  IN [ y \in keys |->
         Cardinality({j \in 1..Len(df.rows) : df.rows[j]["fiscal_year"] = Num(y)}) ]

RECURSIVE sorted(_)
sorted(S) ==
  IF S = {} THEN << >>
  ELSE LET m == CHOOSE x \in S : \A y \in S : x <= y
       IN << m >> \o sorted(S \ {m})

missing_of_short(fy_counts) == (FirstFY .. (EndFY - 2)) \ DOMAIN fy_counts

missing_of(fy_counts) == expected \ DOMAIN fy_counts

Summary ==
  /\ pc = "summary"
  /\ LET fy_counts == groupby_size(combined)
         missing == missing_of(fy_counts)
     IN report' =
          [ kind |-> "summary",
            counts |-> fy_counts,
            order |-> sorted(DOMAIN fy_counts),
            total |-> Len(combined.rows),
            missing |-> sorted(missing),
            advisory |-> IF missing # {} THEN "MISSING" ELSE "ALL_PRESENT" ]
  /\ pc' = "done"
  /\ UNCHANGED << fs, out_dir, fi, frames, combined, output, error, sample, cleaned >>

\* ------------------------------------------- process_fy on a one-row CSV
Pending == [kind |-> "pending"]

NoShape == [k |-> "none", rows |-> << >>, col |-> ""]

SampleYears == (FirstFY - YearMargin) .. (EndFY - 1 + YearMargin)

DateCells ==
  {FmtDate(y, m, d) : y \in SampleYears, m \in 0..13, d \in {1, 29, 30, 31}}
    \cup NA_VALUES
    \cup { Filler }

ZipChars == {"1", "n", "a", "N"}

ZipCells ==
  UNION {[1..n -> ZipChars] : n \in 0..MaxZipLen}
    \cup { << "1", "2", "3", "4", "5", "6", "7", "8", "9" >>, << "N", "A" >> }

SampleFile(date, zip) ==
  [ header |-> USE_COLS,
    rows |-> << MkRow(USE_COLS, date, date, zip, << "1", "2" >>) >> ]

InitIdleMain ==
  /\ fs = [ l \in {FY_FOLDERS[i] : i \in 1..NFolders} |-> NoShape ]
  /\ pc = "idle"
  /\ out_dir = FALSE
  /\ fi = 1
  /\ frames = << >>
  /\ combined = Absent
  /\ output = Absent
  /\ report = Absent
  /\ error = "none"
  /\ cleaned = Pending

InitDate ==
  /\ InitIdleMain
  /\ \E date \in DateCells :
       sample = SampleFile(date, << "1", "2", "3", "4", "5", "6", "7", "8", "9" >>)

InitZip ==
  /\ InitIdleMain
  /\ \E zip \in ZipCells : sample = SampleFile(FmtDate(FirstFY, 1, 1), zip)

CleanSample ==
  /\ cleaned = Pending
  /\ cleaned' = process_fy(<< sample >>)
  /\ UNCHANGED << fs, pc, out_dir, fi, frames, combined, output, report, error, sample >>

SpecDate == InitDate /\ [][CleanSample]_vars

SpecZip == InitZip /\ [][CleanSample]_vars

Next == MakeDirs \/ ProcessPartition \/ Merge \/ Export \/ Summary

Spec == Init /\ [][Next]_vars

\* ================================================================ claims
Labels == 1..NFolders

Csvs(i) == glob(FY_FOLDERS[i])

HasCsv(i) == Csvs(i) # << >>

LacksColumn(i) == HasCsv(i) /\ ~(USE_COLS \subseteq Csvs(i)[1].header)

CanonicalCols == DOMAIN COLUMN_MAP \cup {"fiscal_year"}

SourceOnlyCols == USE_COLS \ DOMAIN COLUMN_MAP

Ran(pcs) == pc \in pcs

SampleRow == cleaned.df.rows[1]

SampleDateCell == sample.rows[1]["action_date"]

SampleZipCell == sample.rows[1]["primary_place_of_performance_zip_4"]

ValidYmd(y, m, d) == m \in 1..12 /\ d \in 1..DaysIn(y, m)

\* C1: in a cleaned row, fiscal_year is the calendar year of the parsed
\* action_date plus one when its month is October or later, the calendar year
\* itself for an earlier month, and null exactly when action_date is null; for
\* a cell written YYYY-MM-DD with a real calendar date these are the year and
\* month the cell names.
C1_FiscalYearRule ==
  cleaned.kind = "df" =>
    /\ IsNull(SampleRow["fiscal_year"]) <=> IsNull(SampleRow["action_date"])
    /\ ~IsNull(SampleRow["action_date"]) =>
         SampleRow["fiscal_year"] =
           Num(IF SampleRow["action_date"].month >= 10
               THEN SampleRow["action_date"].year + 1
               ELSE SampleRow["action_date"].year)
    /\ \A y \in SampleYears, m \in 0..13, d \in {1, 29, 30, 31} :
         (SampleDateCell = FmtDate(y, m, d) /\ ValidYmd(y, m, d)) =>
           SampleRow["fiscal_year"] = Num(IF m >= 10 THEN y + 1 ELSE y)

C1_Witness ==
  /\ cleaned.kind = "df"
  /\ SampleDateCell = FmtDate(2024, 10, 1)
  /\ SampleRow["action_date"] = Timestamp(2024, 10, 1)
  /\ SampleRow["fiscal_year"] = Num(2025)

FirstLacking(k) == LacksColumn(k) /\ \A j \in 1..(k - 1) : ~LacksColumn(j)

\* C2: when the CSV selected for folder k is the first one to lack a required
\* source column, the run never gets past folder k: it ends in the usecols
\* error there, the merge, export and summary never run, and the output file
\* is never written, whatever was read before k.
C2_MissingColumnFatal ==
  \A k \in Labels :
    FirstLacking(k) =>
      /\ fi <= k
      /\ Ran({"start", "loop", "fatal"})
      /\ (pc = "loop" /\ fi = k) \/ pc = "start" \/ fi < k \/
           (pc = "fatal" /\ error = "ValueError: usecols")
      /\ Len(frames) < k
      /\ combined = Absent
      /\ output = Absent
      /\ report = Absent

C2_Witness ==
  /\ pc = "fatal"
  /\ error = "ValueError: usecols"
  /\ LacksColumn(fi)
  /\ frames # << >>
  /\ output = Absent

\* C3: when no folder holds a CSV, the run ends in the error of the merge
\* step after the loop; the output file is not written and no summary is
\* printed.
C3_NothingToMerge ==
  (\A i \in Labels : ~HasCsv(i)) =>
    /\ Ran({"start", "loop", "fatal"})
    /\ frames = << >>
    /\ pc = "fatal" =>
         (fi = NFolders + 1 /\ error = "ValueError: No objects to concatenate")
    /\ combined = Absent
    /\ output = Absent
    /\ report = Absent

C3_Witness ==
  /\ \A i \in Labels : ~HasCsv(i)
  /\ pc = "fatal"
  /\ fi = NFolders + 1
  /\ output = Absent

\* the labels of the list that hold a CSV, in list order
PresentLabels == SelectSeq([i \in Labels |-> i], HasCsv)

RECURSIVE FramesOver(_, _)
FramesOver(idx, upto) ==
  IF idx = << >> \/ Head(idx) >= upto THEN << >>
  ELSE << CleanFrame(read_csv(Csvs(Head(idx))[1])) >> \o FramesOver(Tail(idx), upto)

\* C4: a folder with no CSV is passed over without an error: at every point
\* of the loop the accumulator holds what the loop over the list without the
\* empty folders would hold, the error that ends a loop was raised at a folder
\* that has a CSV, and a run with no unreadable CSV goes through all nine
\* labels.
C4_EmptyFolderSkipped ==
  /\ Ran({"loop", "fatal", "export", "summary", "done"}) =>
       frames = FramesOver(PresentLabels, fi)
  /\ (pc = "fatal" /\ fi <= NFolders) => HasCsv(fi)
  /\ Ran({"export", "summary", "done"}) => fi = NFolders + 1

C4_Witness ==
  /\ pc = "loop"
  /\ \E k \in Labels : \E j \in Labels :
       /\ k < j
       /\ j < fi
       /\ ~HasCsv(k)
       /\ HasCsv(j)
       /\ frames # << >>

RECURSIVE RowsFrom(_)
RowsFrom(i) ==
  IF i > NFolders THEN << >>
  ELSE (IF HasCsv(i) THEN CleanFrame(read_csv(Csvs(i)[1])).rows ELSE << >>)
         \o RowsFrom(i + 1)

RECURSIVE RowCount(_)
RowCount(fr) == IF fr = << >> THEN 0 ELSE Len(fr[1].rows) + RowCount(Tail(fr))

\* C5: once exported, the written dataset is the cleaned rows of the folders
\* that were read, folder after folder in FY2017..FY2025 order and in file
\* order within a folder, nothing dropped, deduplicated or reordered: its
\* row count is the sum of the row counts of the accumulated frames.
C5_ConcatInOrder ==
  Ran({"summary", "done"}) =>
    /\ output.rows = RowsFrom(1)
    /\ output = combined
    /\ Len(output.rows) = RowCount(frames)

C5_Witness ==
  /\ pc = "done"
  /\ Len(frames) >= 2
  /\ \E a \in 1..Len(output.rows) : \E b \in 1..Len(output.rows) :
       a < b /\ output.rows[a] = output.rows[b]

\* C6: a cleaned zip_5 is null or a text of exactly five characters.
C6_ZipExactlyFive ==
  cleaned.kind = "df" =>
    \/ IsNull(SampleRow["primary_place_of_performance_zip_5"])
    \/ Len(SampleRow["primary_place_of_performance_zip_5"].str) = 5

\* C7: the cleaned zip_5 is the first five characters of the zip+4 cell when
\* the cell is present, and null when the cell is missing, which is also
\* what a cell that reads "nan" is.
C7_ZipPrefix ==
  cleaned.kind = "df" =>
    LET z == SampleZipCell
        out == SampleRow["primary_place_of_performance_zip_5"]
    IN IF z \in NA_VALUES THEN IsNull(out)
       ELSE /\ ~IsNull(out)
            /\ Len(out.str) = (IF Len(z) < 5 THEN Len(z) ELSE 5)
            /\ \A j \in 1..Len(out.str) : out.str[j] = z[j]

C7_Witness ==
  /\ cleaned.kind = "df"
  /\ SampleZipCell = << "1", "2", "3", "4", "5", "6", "7", "8", "9" >>
  /\ SampleRow["primary_place_of_performance_zip_5"] =
       Str(<< "1", "2", "3", "4", "5" >>)

Flagged == {report.missing[j] : j \in 1..Len(report.missing)}

\* the fiscal years the dated cells of the CSV of folder i fall in
YearsCarried(i) ==
  IF ~HasCsv(i) THEN {}
  ELSE {IF t.month >= 10 THEN t.year + 1 ELSE t.year :
          t \in {to_datetime(ReadCell(Csvs(i)[1].rows[j]["action_date"])) :
                   j \in 1..Len(Csvs(i)[1].rows)} \ {NaT}}

OwnYearOnly(i) == HasCsv(i) => YearsCarried(i) = {LabelYear(i)}

\* C8 as stated: the flagged years are those of the folders without a CSV.
C8_FlagsFoldersWithoutCsv ==
  pc = "done" => \A i \in Labels : (LabelYear(i) \in Flagged <=> ~HasCsv(i))

\* C8, amended: a year of 2017..2025 is flagged exactly when no row of any
\* CSV that was read falls in that fiscal year; when every CSV read has rows
\* and all of them fall in the fiscal year of its own folder, the flagged
\* years are those of the folders without a CSV.
C8_FlagsYearsWithoutRows ==
  pc = "done" =>
    /\ \A y \in expected :
         y \in Flagged <=> ~(\E i \in Labels : y \in YearsCarried(i))
    /\ (\A i \in Labels : OwnYearOnly(i)) =>
         \A i \in Labels : (LabelYear(i) \in Flagged <=> ~HasCsv(i))

C8_Witness ==
  /\ pc = "done"
  /\ \A i \in Labels : OwnYearOnly(i)
  /\ \E i \in Labels : ~HasCsv(i) /\ LabelYear(i) \in Flagged
  /\ \E i \in Labels : HasCsv(i) /\ LabelYear(i) \notin Flagged

\* C9: every frame of the accumulator has the thirteen canonical columns, in
\* its column list and in each of its rows, and none of the source-only
\* names; no folder whose CSV lacks a required column is among those the
\* loop got past.
C9_CanonicalSchema ==
  /\ Cardinality(CanonicalCols) = 13
  /\ \A k \in 1..Len(frames) :
       /\ frames[k].columns = CanonicalCols
       /\ frames[k].columns \cap SourceOnlyCols = {}
       /\ \A j \in 1..Len(frames[k].rows) :
            DOMAIN frames[k].rows[j] = CanonicalCols
  /\ \A i \in 1..(fi - 1) : ~LacksColumn(i)

C9_Witness ==
  /\ frames # << >>
  /\ \E i \in 1..(fi - 1) :
       /\ HasCsv(i)
       /\ ExtraCol \in Csvs(i)[1].header
       /\ frames[Len(frames)].columns = CanonicalCols

ObservedYears ==
  {combined.rows[j]["fiscal_year"].num :
     j \in {n \in 1..Len(combined.rows) :
              ~IsNull(combined.rows[n]["fiscal_year"])}}

\* C10: the years reported missing are 2017..2025 minus the non-null
\* fiscal_year values of the combined dataset, listed in ascending order; the
\* advisory is printed exactly when there is such a year; values outside
\* 2017..2025 and null values change nothing.
C10_MissingIsSetDifference ==
  pc = "done" =>
    /\ Flagged = expected \ ObservedYears
    /\ Flagged = expected \ (ObservedYears \cap expected)
    /\ \A a \in 1..Len(report.missing) : \A b \in 1..Len(report.missing) :
         a < b => report.missing[a] < report.missing[b]
    /\ report.advisory = "MISSING" <=> (expected \ ObservedYears) # {}
    /\ report.advisory \in {"MISSING", "ALL_PRESENT"}

C10_Witness ==
  /\ pc = "done"
  /\ report.advisory = "ALL_PRESENT"
  /\ \E j \in 1..Len(combined.rows) : IsNull(combined.rows[j]["fiscal_year"])
  /\ ObservedYears \ expected # {}

====
